---------------------------- MODULE Spec2Model ----------------------------
(***************************************************************************)
(* Self-time computation of build_profile/profile.py:                      *)
(*   get_data            groups the trace events by thread id,             *)
(*   get_times           folds every thread's Complete events into         *)
(*                       per-name self-time totals and records categories, *)
(*   create_event_objects flattens the totals into output records.         *)
(*                                                                         *)
(* A trace event is a function from the names of the fields it carries to  *)
(* their values ("f in event" of the source is f \in DOMAIN event).  The   *)
(* pseudo-field korder stands for the order in which the keys of the JSON  *)
(* object were written: json.load keeps it, str() prints it, and no field  *)
(* lookup of the program reads it.                                         *)
(*                                                                         *)
(* A Python dict is [keys |-> insertion-ordered key sequence,              *)
(*                   val  |-> function from the keys to the values].       *)
(***************************************************************************)
EXTENDS Integers, Sequences, FiniteSets, TLC

(***************************************************************************)
(* Bounds of the model.                                                    *)
(***************************************************************************)
MaxLen == 3
MaxTs == 1
MaxDur == 3
MaxTid == 2
MaxKeyOrder == 1

Tids == 1..MaxTid
Names == {"a", "b"}
Cats == {"c1", "c2"}
Phases == {"X", "B"}
Durs == {-1} \cup (0..MaxDur)

Mk(k, tid, ph, ts, dur, name, cat) ==
    [korder |-> k, tid |-> tid, ph |-> ph, ts |-> ts, dur |-> dur,
     name |-> name, cat |-> cat]

Drop(e, F) == [f \in (DOMAIN e) \ F |-> e[f]]

(***************************************************************************)
(* The families of records an input is drawn from.  Every run draws all    *)
(* its records from one family.                                            *)
(*   timing : one thread and one name, Complete events over all            *)
(*            timestamps and durations                                     *)
(*   threads: a short event inside a long one, over the threads and names  *)
(*   cats   : Complete and other-phase events with varying categories      *)
(*   fields : events with fields left out                                  *)
(*   keys   : a short event inside a long one, the keys written in         *)
(*            different orders                                             *)
(***************************************************************************)
Families == {"timing", "threads", "cats", "fields", "keys"}

DropSets == {{}, {"tid"}, {"ph"}, {"ts"}, {"dur"}, {"name"}, {"cat"},
             {"name", "cat"}}

\* <<ts, dur>> of a short event and of a longer one that contains its start
Short == <<1, 2>>
Long == <<0, 3>>

Universe(fam) ==
    CASE fam = "timing" ->
           {Mk(0, 1, "X", ts, dur, "a", "c1") : ts \in 0..MaxTs, dur \in Durs}
      [] fam = "threads" ->
           {Mk(0, t, "X", sh[1], sh[2], n, "c1") :
               t \in Tids, sh \in {Short, Long}, n \in Names}
      [] fam = "cats" ->
           {Mk(0, t, "X", 0, 1, nc[1], nc[2]) :
               t \in Tids,
               nc \in {<<"a", "c1">>, <<"a", "c2">>, <<"b", "c1">>}}
           \cup {Mk(0, 1, "B", 0, 1, "a", c) : c \in Cats}
           \cup {Drop(Mk(0, 1, ph, 0, 1, "a", "c1"), {"cat"}) : ph \in Phases}
      [] fam = "fields" ->
           {Drop(Mk(0, 1, ph, 0, 1, "a", "c1"), D) :
               ph \in Phases, D \in DropSets}
           \cup {Drop(Mk(0, 2, "X", 0, 1, "a", "c1"), D) : D \in {{}, {"ts"}}}
      [] fam = "keys" ->
           {Mk(k, 1, "X", sh[1], sh[2], "a", "c1") :
               k \in 0..MaxKeyOrder, sh \in {Short, Long}}

(***************************************************************************)
(* Python dicts and the string form of a dict.                             *)
(***************************************************************************)
EmptyDict == [keys |-> <<>>, val |-> <<>>]

In(k, d) == k \in DOMAIN d.val

DictSet(d, k, v) ==
    IF In(k, d)
    THEN [d EXCEPT !.val[k] = v]
    ELSE [keys |-> Append(d.keys, k), val |-> (k :> v) @@ d.val]

\* The fields of an event as == compares them: key order is ignored.
Fields(e) == Drop(e, {"korder"})

\* str(curr): the keys and values in the order the keys were inserted.
Str(e) == <<e.korder, Fields(e)>>

VARIABLES
    family,       \* the family the input's records are drawn from
    traceEvents,  \* data["traceEvents"] as far as get_data has read it
    pc,           \* the place the program is at
    exc,          \* the exception that ended the run, and the function raising it
    threads,      \* get_data: dict tid -> list of events
    cats,         \* get_data: dict cat -> list of names
    all_threads,  \* get_times: dict tid -> event_times
    categories,   \* get_times: dict name -> category
    ti,           \* get_times: position of `thread` in threads
    ei,           \* get_times: position of `event` in threads[thread]
    total_time,   \* get_times: running sum of the thread's self times
    all_events,   \* get_times: the thread's Complete events processed so far
    event_times,  \* get_times: dict name -> summed self time
    seen,         \* get_times: str() of the events already subtracted
    objs,         \* create_event_objects: the output records
    self_times,   \* history: self_time of every event of all_events
    sub_count     \* history: how often every event of all_events was subtracted

vars == <<family, traceEvents, pc, exc, threads, cats, all_threads, categories,
          ti, ei, total_time, all_events, event_times, seen, objs,
          self_times, sub_count>>

getDataVars == <<threads, cats>>
getTimesVars == <<all_threads, categories, ti, ei, total_time, all_events,
                  event_times, seen, self_times, sub_count>>

NoExc == [type |-> "none", in |-> "none"]
Raise(type, fn) == [type |-> type, in |-> fn]

Init ==
    /\ family \in Families
    /\ traceEvents = <<>>
    /\ pc = "get_data"
    /\ exc = NoExc
    /\ threads = EmptyDict
    /\ cats = EmptyDict
    /\ all_threads = EmptyDict
    /\ categories = EmptyDict
    /\ ti = 0
    /\ ei = 0
    /\ total_time = 0
    /\ all_events = <<>>
    /\ event_times = EmptyDict
    /\ seen = {}
    /\ objs = <<>>
    /\ self_times = <<>>
    /\ sub_count = <<>>

(***************************************************************************)
(* get_data, lines 176-186: one iteration of the loop over traceEvents.    *)
(* Every exception raised inside the try block leaves get_data as          *)
(* UnableToUnzipFileError (line 187-188).                                  *)
(***************************************************************************)
\* lines 177-180
CatsAppend(c, line) ==
    IF In(line.cat, c)
    THEN [c EXCEPT !.val[line.cat] = Append(@, line.name)]
    ELSE DictSet(c, line.cat, <<line.name>>)

\* ThreadsAppend putting a line in front of its thread's list
ThreadsPrepend(t, line) ==
    IF In(line.tid, t)
    THEN [t EXCEPT !.val[line.tid] = <<line>> \o @]
    ELSE DictSet(t, line.tid, <<line>>)

\* lines 183-186
ThreadsAppend(t, line) ==
    IF In(line.tid, t)
    THEN [t EXCEPT !.val[line.tid] = Append(@, line)]
    ELSE DictSet(t, line.tid, <<line>>)

GetDataLine ==
    /\ pc = "get_data"
    /\ Len(traceEvents) < MaxLen
    /\ \E line \in Universe(family) :
         /\ traceEvents' = Append(traceEvents, line)
         /\ IF "cat" \in DOMAIN line /\ "name" \notin DOMAIN line
            THEN \* line["name"] raises KeyError at line 180
                 /\ pc' = "raised"
                 /\ exc' = Raise("UnableToUnzipFileError", "get_data")
                 /\ UNCHANGED getDataVars
            ELSE LET cats1 == IF "cat" \in DOMAIN line
                              THEN CatsAppend(cats, line) ELSE cats
                 IN  IF "tid" \notin DOMAIN line
                     THEN \* IncorrectProfileFormatError of line 182, caught at 187
                          /\ pc' = "raised"
                          /\ exc' = Raise("UnableToUnzipFileError", "get_data")
                          /\ cats' = cats1
                          /\ UNCHANGED threads
                     ELSE /\ cats' = cats1
                          /\ threads' = ThreadsAppend(threads, line)
                          /\ UNCHANGED <<pc, exc>>
    /\ UNCHANGED <<family, objs>>
    /\ UNCHANGED getTimesVars

\* lines 189-190, and main lines 117-120 entering get_times (lines 207-208)
GetDataReturn ==
    /\ pc = "get_data"
    /\ pc' = "for_thread"
    /\ all_threads' = EmptyDict
    /\ categories' = EmptyDict
    /\ ti' = 0
    /\ UNCHANGED <<family, traceEvents, exc, threads, cats, ei, total_time,
                   all_events, event_times, seen, objs, self_times, sub_count>>

(***************************************************************************)
(* get_times, lines 207-253.                                               *)
(***************************************************************************)
thread == threads.keys[ti]
event == threads.val[thread][ei]

\* ForThread without fresh total_time, all_events and seen
ForThreadKeepsLocals ==
    /\ pc = "for_thread"
    /\ ti < Len(threads.keys)
    /\ ti' = ti + 1
    /\ ei' = 1
    /\ event_times' = EmptyDict
    /\ pc' = "for_event"
    /\ UNCHANGED <<family, traceEvents, exc, threads, cats, all_threads,
                   categories, objs, total_time, all_events, seen,
                   self_times, sub_count>>

\* lines 209-213: the next thread of the loop, with fresh locals
ForThread ==
    /\ pc = "for_thread"
    /\ ti < Len(threads.keys)
    /\ ti' = ti + 1
    /\ ei' = 1
    /\ total_time' = 0
    /\ all_events' = <<>>
    /\ event_times' = EmptyDict
    /\ seen' = {}
    /\ self_times' = <<>>
    /\ sub_count' = <<>>
    /\ pc' = "for_event"
    /\ UNCHANGED <<family, traceEvents, exc, threads, cats, all_threads,
                   categories, objs>>

\* Gate left out: the scan is always performed
GateAlways(total) == TRUE

\* line 231
Gate(total) == total > 0

\* Qualifies without the duration test of line 240
QualifiesAnyDuration(curr, low, high, dur, sn) ==
    /\ curr.ts > low
    /\ curr.ts < high
    /\ Str(curr) \notin sn

\* Qualifies without the seen test of line 239
QualifiesIgnoresSeen(curr, low, high, dur, sn) ==
    /\ curr.ts > low
    /\ curr.ts < high
    /\ curr.dur < dur

\* lines 236-241
Qualifies(curr, low, high, dur, sn) ==
    /\ curr.ts > low
    /\ curr.ts < high
    /\ Str(curr) \notin sn
    /\ curr.dur < dur

\* SeenAdd forgetting to add
SeenAddNothing(sn, curr) == sn

\* line 242
SeenAdd(sn, curr) == sn \cup {Str(curr)}

\* lines 234-243: the scan from position i down to 1.  st.used collects the
\* positions subtracted (for the history variable sub_count).
RECURSIVE Scan(_, _, _, _, _, _)
Scan(events, i, low, high, dur, st) ==
    IF i = 0
    THEN st
    ELSE LET curr == events[i]
         IN  IF Qualifies(curr, low, high, dur, st.seen)
             THEN Scan(events, i - 1, low, high, dur,
                       [self_time |-> st.self_time - curr.dur,
                        seen |-> SeenAdd(st.seen, curr),
                        used |-> st.used \cup {i}])
             ELSE Scan(events, i - 1, low, high, dur, st)

\* lines 229-243: self_time of ev, the new seen set and the positions used
SelfTime(ev, total, events, sn) ==
    LET st0 == [self_time |-> ev.dur, seen |-> sn, used |-> {}]
    IN  IF Gate(total)
        THEN LET low == ev.ts
                 high == low + ev.dur
             IN  Scan(events, Len(events), low, high, ev.dur, st0)
        ELSE st0

\* lines 248-251
Accumulate(et, name, self_time) ==
    LET et0 == IF In(name, et) THEN et ELSE DictSet(et, name, 0)
    IN  [et0 EXCEPT !.val[name] = @ + self_time]

\* lines 214-251: one iteration of the loop over threads[thread]
ForEvent ==
    /\ pc = "for_event"
    /\ ei <= Len(threads.val[thread])
    /\ UNCHANGED <<family, traceEvents, threads, cats, all_threads, ti, objs>>
    /\ IF "ph" \notin DOMAIN event
       THEN \* line 216
            /\ pc' = "raised"
            /\ exc' = Raise("IncorrectProfileFormatError", "get_times")
            /\ UNCHANGED <<categories, ei, total_time, all_events,
                           event_times, seen, self_times, sub_count>>
       ELSE IF event.ph # "X"
       THEN /\ ei' = ei + 1
            /\ UNCHANGED <<pc, exc, categories, total_time, all_events,
                           event_times, seen, self_times, sub_count>>
       ELSE IF "ts" \notin DOMAIN event \/ "dur" \notin DOMAIN event
       THEN \* line 219
            /\ pc' = "raised"
            /\ exc' = Raise("IncorrectProfileFormatError", "get_times")
            /\ UNCHANGED <<categories, ei, total_time, all_events,
                           event_times, seen, self_times, sub_count>>
       ELSE IF "cat" \notin DOMAIN event \/ "name" \notin DOMAIN event
       THEN \* line 230: event["cat"] or event["name"] raises KeyError
            /\ pc' = "raised"
            /\ exc' = Raise("KeyError", "get_times")
            /\ UNCHANGED <<categories, ei, total_time, all_events,
                           event_times, seen, self_times, sub_count>>
       ELSE LET r == SelfTime(event, total_time, all_events, seen)
            IN  /\ categories' = DictSet(categories, event.name, event.cat)
                /\ seen' = r.seen
                /\ all_events' = Append(all_events, event)
                /\ total_time' = total_time + r.self_time
                \* line 246 cannot raise: line 230 has read event["name"]
                /\ event_times' = Accumulate(event_times, event.name, r.self_time)
                /\ self_times' = Append(self_times, r.self_time)
                /\ sub_count' = Append([i \in DOMAIN sub_count |->
                                          IF i \in r.used THEN sub_count[i] + 1
                                                          ELSE sub_count[i]], 0)
                /\ ei' = ei + 1
                /\ UNCHANGED <<pc, exc>>

\* line 252
EndThread ==
    /\ pc = "for_event"
    /\ ei > Len(threads.val[thread])
    /\ all_threads' = DictSet(all_threads, thread, event_times)
    /\ pc' = "for_thread"
    /\ UNCHANGED <<family, traceEvents, exc, threads, cats, categories, ti, ei,
                   total_time, all_events, event_times, seen, objs,
                   self_times, sub_count>>

(***************************************************************************)
(* create_event_objects, lines 265-276.  TIME_TAKEN is the quotient        *)
(* float(total) / 1000000, kept as numerator and denominator.              *)
(***************************************************************************)
Million == 1000000

TimeTaken(total) == [num |-> total, den |-> Million]

\* EventObject naming the first thread instead of the current one
EventObjectFirstThread(all, cat, line, data) ==
    [EVENT_NAME |-> data,
     CATEGORY |-> cat.val[data],
     THREAD |-> all.keys[1],
     TIME_TAKEN |-> TimeTaken(all.val[line].val[data])]

\* lines 270-275
EventObject(all, cat, line, data) ==
    [EVENT_NAME |-> data,
     CATEGORY |-> cat.val[data],
     THREAD |-> line,
     TIME_TAKEN |-> TimeTaken(all.val[line].val[data])]

\* line 269: the records of thread `line`, names from position j on
RECURSIVE ThreadObjects(_, _, _, _)
ThreadObjects(all, cat, line, j) ==
    IF j > Len(all.val[line].keys)
    THEN <<>>
    ELSE <<EventObject(all, cat, line, all.val[line].keys[j])>>
         \o ThreadObjects(all, cat, line, j + 1)

\* line 268: the records of the threads from position i on
RECURSIVE CreateObjects(_, _, _)
CreateObjects(all, cat, i) ==
    IF i > Len(all.keys)
    THEN <<>>
    ELSE ThreadObjects(all, cat, all.keys[i], 1) \o CreateObjects(all, cat, i + 1)

\* the names categories[data] of line 272 is asked for
LookedUp(all) == UNION {DOMAIN all.val[t].val : t \in DOMAIN all.val}

\* line 253 and main lines 120-126: the returned list [all_threads, categories]
\* is never empty, so `not all_threads` is false and main goes on
GetTimesReturn ==
    /\ pc = "for_thread"
    /\ ti = Len(threads.keys)
    /\ pc' = IF Len(<<all_threads, categories>>) = 0
             THEN "done" ELSE "create_event_objects"
    /\ UNCHANGED <<family, traceEvents, exc, threads, cats, objs>>
    /\ UNCHANGED getTimesVars

\* main line 129
CreateEventObjects ==
    /\ pc = "create_event_objects"
    /\ IF LookedUp(all_threads) \subseteq DOMAIN categories.val
       THEN /\ objs' = CreateObjects(all_threads, categories, 1)
            /\ pc' = "done"
            /\ UNCHANGED exc
       ELSE \* categories[data] raises KeyError at line 272
            /\ pc' = "raised"
            /\ exc' = Raise("KeyError", "create_event_objects")
            /\ UNCHANGED objs
    /\ UNCHANGED <<family, traceEvents, threads, cats>>
    /\ UNCHANGED getTimesVars

Next ==
    \/ GetDataLine
    \/ GetDataReturn
    \/ ForThread
    \/ ForEvent
    \/ EndThread
    \/ GetTimesReturn
    \/ CreateEventObjects

Spec == Init /\ [][Next]_vars

(***************************************************************************)
(* Auxiliary definitions of the properties.  They read the input in        *)
(* traceEvents, not the program's own grouping of it.                      *)
(***************************************************************************)
Terminal == pc \in {"done", "raised"}

IsComplete(e) == "ph" \in DOMAIN e /\ e.ph = "X"

\* the arrival-ordered timeline of thread t
Timeline(t) ==
    SelectSeq(traceEvents, LAMBDA e : "tid" \in DOMAIN e /\ e.tid = t)

\* the Complete events among the first k events of a timeline
Completes(tl, k) == SelectSeq(SubSeq(tl, 1, k), IsComplete)

RECURSIVE SumSeq(_)
SumSeq(s) == IF s = <<>> THEN 0 ELSE Head(s) + SumSeq(Tail(s))

\* the sum of the durations of a set of str() keys
RECURSIVE SumDur(_)
SumDur(Q) ==
    IF Q = {} THEN 0
    ELSE LET q == CHOOSE x \in Q : TRUE
         IN  q[2].dur + SumDur(Q \ {q})

\* e's interval strictly contains c's timestamp, and c is shorter
Inside(c, e) == e.ts < c.ts /\ c.ts < e.ts + e.dur /\ c.dur < e.dur

\* The reference fold over the Complete events evs[1..k]: used is the set of
\* keys already taken as a subtraction source, selfs the self times.
RECURSIVE RefFold(_, _)
RefFold(evs, k) ==
    IF k = 0
    THEN [total |-> 0, used |-> {}, selfs |-> <<>>]
    ELSE LET p == RefFold(evs, k - 1)
             e == evs[k]
             Q == IF p.total > 0
                  THEN {Str(evs[j]) : j \in {i \in 1..(k - 1) : Inside(evs[i], e)}}
                       \ p.used
                  ELSE {}
             s == e.dur - SumDur(Q)
         IN  [total |-> p.total + s, used |-> p.used \cup Q,
              selfs |-> Append(p.selfs, s)]

\* the per-name totals of the reference fold, as a function of the names
RefTotals(evs) ==
    LET selfs == RefFold(evs, Len(evs)).selfs
    IN  [n \in {evs[i].name : i \in DOMAIN evs} |->
           SumSeq([i \in DOMAIN evs |-> IF evs[i].name = n THEN selfs[i] ELSE 0])]

\* the raw duration of the events named n
RawTotal(evs, n) ==
    SumSeq([i \in DOMAIN evs |-> IF evs[i].name = n THEN evs[i].dur ELSE 0])

(***************************************************************************)
(* C1: the self-time table entry of every thread equals the reference fold *)
(* over that thread's arrival-ordered Complete events alone, and so do the *)
(* self times computed so far while a thread is being folded.              *)
(***************************************************************************)
C1_ReferenceFold ==
    /\ \A t \in DOMAIN all_threads.val :
         all_threads.val[t].val =
            RefTotals(Completes(Timeline(t), Len(Timeline(t))))
    /\ pc = "for_event" =>
         LET evs == Completes(Timeline(thread), ei - 1)
         IN  /\ self_times = RefFold(evs, Len(evs)).selfs
             /\ event_times.val = RefTotals(evs)

\* two threads are finished and in one of them a subtraction changed a total
C1_Witness ==
    /\ pc = "done"
    /\ Len(all_threads.keys) = 2
    /\ \E t \in DOMAIN all_threads.val :
         \E n \in DOMAIN all_threads.val[t].val :
            all_threads.val[t].val[n] #
               RawTotal(Completes(Timeline(t), Len(Timeline(t))), n)

(***************************************************************************)
(* C2: single-use subtraction: every processed event has been subtracted   *)
(* from at most one later event.                                           *)
(***************************************************************************)
C2_SingleUse == \A i \in DOMAIN sub_count : sub_count[i] <= 1

\* an event was subtracted once although two later events contain it
C2_Witness ==
    \E i \in DOMAIN sub_count :
       /\ sub_count[i] = 1
       /\ \E j, k \in DOMAIN all_events :
            /\ i < j /\ j < k
            /\ Inside(all_events[i], all_events[j])
            /\ Inside(all_events[i], all_events[k])

(***************************************************************************)
(* C3: first-event exemption: the first Complete event of a thread gets    *)
(* its raw duration as self time, whatever follows it in the thread and    *)
(* whatever the threads before it held.                                    *)
(***************************************************************************)
C3_FirstEventExempt ==
    pc = "for_event" =>
       LET evs == Completes(Timeline(thread), ei - 1)
       IN  /\ Len(evs) >= 1 =>
                /\ Len(self_times) >= 1
                /\ self_times[1] = evs[1].dur
           /\ Len(evs) = 1 =>
                /\ total_time = evs[1].dur
                /\ event_times.val = (evs[1].name :> evs[1].dur)

\* in the second thread, a later event lies inside the first event's interval
C3_Witness ==
    /\ pc = "for_event"
    /\ ti = 2
    /\ Len(all_threads.keys) = 1
    /\ Len(all_events) = 2
    /\ Inside(all_events[2], all_events[1])
    /\ self_times[1] = all_events[1].dur

(***************************************************************************)
(* C5: with non-negative durations no event contributes a negative self    *)
(* time (the per-name totals never decrease).                              *)
(***************************************************************************)
C5_NeverDecreases ==
    (\A i \in DOMAIN all_events : all_events[i].dur >= 0)
       => \A i \in DOMAIN self_times : self_times[i] >= 0

(***************************************************************************)
(* C9: the scan is performed iff the sum of the earlier self times of the  *)
(* thread is positive: if it is, every qualifying event not yet used is    *)
(* marked as used; if it is not, nothing is marked and the event's self    *)
(* time is its raw duration.                                               *)
(***************************************************************************)
QualifyingKeys(e) ==
    {Str(all_events[j]) : j \in {i \in DOMAIN all_events : Inside(all_events[i], e)}}
       \ seen

C9_ScanIffPositive ==
    [][(pc = "for_event" /\ Len(all_events') = Len(all_events) + 1) =>
         IF SumSeq(self_times) > 0
         THEN seen' = seen \cup QualifyingKeys(event)
         ELSE /\ seen' = seen
              /\ self_times'[Len(self_times')] = event.dur]_vars

\* a later event was exempt although an earlier event of non-zero duration
\* qualified for subtraction
C9_Witness ==
    /\ pc = "for_event"
    /\ Len(all_events) >= 2
    /\ LET n == Len(all_events)
       IN  /\ SumSeq(SubSeq(self_times, 1, n - 1)) <= 0
           /\ self_times[n] = all_events[n].dur
           /\ \E j \in 1..(n - 1) :
                /\ Inside(all_events[j], all_events[n])
                /\ all_events[j].dur # 0
                /\ Str(all_events[j]) \notin seen

(***************************************************************************)
(* C10 as stated: of two events of a thread equal in all fields at most    *)
(* one is ever subtracted.                                                 *)
(***************************************************************************)
C10_FieldsKey ==
    \A i, j \in DOMAIN all_events :
       (i # j /\ Fields(all_events[i]) = Fields(all_events[j]))
          => sub_count[i] + sub_count[j] <= 1

(***************************************************************************)
(* C10 amended: of two events of a thread with the same string form (equal *)
(* fields written in the same key order) at most one is ever subtracted.   *)
(***************************************************************************)
C10_StrKey ==
    \A i, j \in DOMAIN all_events :
       (i # j /\ Str(all_events[i]) = Str(all_events[j]))
          => sub_count[i] + sub_count[j] <= 1

\* two events with the same string form both lie inside a later event,
\* and one of them was subtracted
C10_Witness ==
    \E i, j, k \in DOMAIN all_events :
       /\ i < j /\ j < k
       /\ Str(all_events[i]) = Str(all_events[j])
       /\ Inside(all_events[i], all_events[k])
       /\ sub_count[i] + sub_count[j] = 1

(***************************************************************************)
(* C6: aggregation emits exactly one record for every (thread, name) pair  *)
(* of the self-time table and no other record; the record carries that     *)
(* thread's total for the name, divided by 1,000,000.                      *)
(***************************************************************************)
TablePairs ==
    UNION {{<<t, n>> : n \in DOMAIN all_threads.val[t].val} :
              t \in DOMAIN all_threads.val}

C6_OneRecordPerPair ==
    pc = "done" =>
       /\ Len(objs) = Cardinality(TablePairs)
       /\ \A p \in TablePairs :
            \E i \in DOMAIN objs :
               /\ objs[i].THREAD = p[1]
               /\ objs[i].EVENT_NAME = p[2]
               /\ objs[i].TIME_TAKEN.num = all_threads.val[p[1]].val[p[2]]
               /\ objs[i].TIME_TAKEN.den = 1000000
       /\ \A i \in DOMAIN objs : <<objs[i].THREAD, objs[i].EVENT_NAME>> \in TablePairs
       /\ \A i, j \in DOMAIN objs :
            (objs[i].THREAD = objs[j].THREAD
               /\ objs[i].EVENT_NAME = objs[j].EVENT_NAME) => i = j

\* the same name in two threads, with different totals, gave two records
C6_Witness ==
    /\ pc = "done"
    /\ \E i, j \in DOMAIN objs :
         /\ objs[i].EVENT_NAME = objs[j].EVENT_NAME
         /\ objs[i].THREAD # objs[j].THREAD
         /\ objs[i].TIME_TAKEN # objs[j].TIME_TAKEN

(***************************************************************************)
(* C7 as stated: after the input is read, the category of a name is the    *)
(* category of the last record in arrival order, of any phase, that has    *)
(* that name and a cat field; every output record carries it.              *)
(***************************************************************************)
\* the position of the last event of s satisfying P(e, n), 0 if none
LastIndex(s, P(_, _), n) ==
    LET I == {i \in DOMAIN s : P(s[i], n)}
    IN  IF I = {} THEN 0 ELSE CHOOSE i \in I : \A j \in I : j <= i

NamedWithCat(e, n) ==
    "name" \in DOMAIN e /\ "cat" \in DOMAIN e /\ e.name = n

CompleteNamed(e, n) == IsComplete(e) /\ NamedWithCat(e, n)

C7_AnyPhaseArrivalOrder ==
    pc \in {"create_event_objects", "done"} =>
       /\ \A n \in Names :
            LastIndex(traceEvents, NamedWithCat, n) # 0 =>
               /\ In(n, categories)
               /\ categories.val[n] =
                     traceEvents[LastIndex(traceEvents, NamedWithCat, n)].cat
       /\ \A i \in DOMAIN objs :
            objs[i].CATEGORY =
               traceEvents[LastIndex(traceEvents, NamedWithCat, objs[i].EVENT_NAME)].cat

(***************************************************************************)
(* C7 amended: the categories are built from the Complete records only, in *)
(* the order get_times processes them (thread by thread, the threads in    *)
(* the order of their first record, arrival order within a thread): the    *)
(* category of a name is that of the last Complete record with the name in *)
(* that order, and every output record for the name carries it.            *)
(***************************************************************************)
\* the thread ids of s in the order of their first appearance
RECURSIVE FirstSeen(_)
FirstSeen(s) ==
    IF s = <<>> THEN <<>>
    ELSE LET front == FirstSeen(SubSeq(s, 1, Len(s) - 1))
             t == s[Len(s)].tid
         IN  IF \E i \in DOMAIN front : front[i] = t
             THEN front ELSE Append(front, t)

RECURSIVE Concat(_, _)
Concat(ts, i) ==
    IF i > Len(ts) THEN <<>> ELSE Timeline(ts[i]) \o Concat(ts, i + 1)

\* the input in processing order
Grouped == Concat(FirstSeen(traceEvents), 1)

C7_CompleteProcessingOrder ==
    pc \in {"create_event_objects", "done"} =>
       /\ DOMAIN categories.val =
             {n \in Names : LastIndex(Grouped, CompleteNamed, n) # 0}
       /\ \A n \in DOMAIN categories.val :
            categories.val[n] = Grouped[LastIndex(Grouped, CompleteNamed, n)].cat
       /\ \A i \in DOMAIN objs :
            objs[i].CATEGORY =
               Grouped[LastIndex(Grouped, CompleteNamed, objs[i].EVENT_NAME)].cat

\* records were output, and the category of a name is not the one of the
\* last record in arrival order that names it
C7_Witness ==
    /\ pc = "done"
    /\ \E i \in DOMAIN objs :
         objs[i].CATEGORY #
            traceEvents[LastIndex(traceEvents, NamedWithCat, objs[i].EVENT_NAME)].cat

(***************************************************************************)
(* C4: the run ends in the record-format error, without output records,    *)
(* iff some record lacks tid or some Complete record lacks ts, dur or      *)
(* name; records of other phases, and records without ph, need only tid    *)
(* and cause no error.                                                     *)
(***************************************************************************)
LacksTid == \E i \in DOMAIN traceEvents : "tid" \notin DOMAIN traceEvents[i]

CompleteLacksField ==
    \E i \in DOMAIN traceEvents :
       /\ IsComplete(traceEvents[i])
       /\ {"ts", "dur", "name"} \ DOMAIN traceEvents[i] # {}

NoComplete == \A i \in DOMAIN traceEvents : ~IsComplete(traceEvents[i])

C4_RecordFormatError ==
    Terminal =>
       /\ (exc.type = "IncorrectProfileFormatError" /\ objs = <<>>)
             <=> (LacksTid \/ CompleteLacksField)
       /\ (NoComplete /\ ~LacksTid) => exc = NoExc

(***************************************************************************)
(* C8: a Complete event without cat whose name no record gives a category  *)
(* ends the run in a category-lookup error raised by the aggregation step; *)
(* a Complete event without cat whose name another record gives a category *)
(* causes no error.                                                        *)
(***************************************************************************)
\* the input is well formed but for missing cat fields
WellFormedButCat ==
    \A i \in DOMAIN traceEvents :
       LET e == traceEvents[i]
       IN  /\ {"tid", "ph"} \subseteq DOMAIN e
           /\ "cat" \in DOMAIN e => "name" \in DOMAIN e
           /\ IsComplete(e) => {"ts", "dur", "name"} \subseteq DOMAIN e

CompleteWithoutCat(e) == IsComplete(e) /\ "cat" \notin DOMAIN e

C8_CategoryLookupError ==
    (Terminal /\ WellFormedButCat) =>
       /\ (\E i \in DOMAIN traceEvents :
              /\ CompleteWithoutCat(traceEvents[i])
              /\ LastIndex(traceEvents, NamedWithCat, traceEvents[i].name) = 0)
            => /\ exc.type = "CategoryLookupError"
               /\ exc.in = "create_event_objects"
       /\ ((\E i \in DOMAIN traceEvents : CompleteWithoutCat(traceEvents[i]))
           /\ \A i \in DOMAIN traceEvents :
                 CompleteWithoutCat(traceEvents[i]) =>
                    LastIndex(traceEvents, NamedWithCat, traceEvents[i].name) # 0)
            => exc = NoExc
=============================================================================
